---- MODULE Spec2Model ----
(***************************************************************************)
(* Model of bot.py, the Steam friend-list monitor.                         *)
(*                                                                         *)
(* Spec      : passes of check_accounts over the two files the program     *)
(*             keeps (DATA_FILE, INIT_FILE), one action per stretch of     *)
(*             code between two awaits.                                    *)
(* SpecChunk : send_telegram_message applied to one message, one action    *)
(*             per iteration of its splitting loop.                        *)
(***************************************************************************)
EXTENDS Integers, Sequences, FiniteSets, TLC

VARIABLES
    init_file,        \* INIT_FILE exists on disk
    data_file,        \* content of DATA_FILE on disk
    pc,               \* position of the process inside check_accounts
    first_run,        \* local first_run of the running pass
    previous_data,    \* local previous_data
    current_data,     \* local current_data
    all_new_friends,  \* local all_new_friends
    results,          \* per tracked account, the outcome of its fetch task
    idx,              \* position of the loop the pass is in
    sent,             \* messages handed to send_telegram_message in this pass
    log,              \* logger.info lines of the change detection in this pass
    saved,            \* save_data has returned in this pass
    first_runs,       \* number of passes started with first_run = True
    last_results,     \* the fetch outcomes of the pass before, if it reached its end
    deliveries,       \* per call of _send_single_message made by the running
                      \* send_telegram_message or still in flight, its outcome so far
    message,          \* send_telegram_message: its argument
    lines,            \* send_telegram_message: message.split('\n')
    line_no,          \* send_telegram_message: index of the next line
    current_chunk,    \* send_telegram_message: current_chunk
    transport,        \* texts handed to _send_single_message, in call order
    cpc               \* position inside send_telegram_message

passvars == <<init_file, data_file, pc, first_run, previous_data, current_data,
              all_new_friends, results, idx, sent, log, saved, first_runs,
              last_results>>
chunkvars == <<message, lines, line_no, current_chunk, transport, cpc>>
vars == <<init_file, data_file, pc, first_run, previous_data, current_data,
          all_new_friends, results, idx, sent, log, saved, first_runs,
          last_results, deliveries,
          message, lines, line_no, current_chunk, transport, cpc>>

----------------------------------------------------------------------------
(* Bounds and the universe of inputs. *)

\* longest relation list the source API returns in the model
MaxListLen == 2

\* relation ids the source API can return
FriendIds == {"f1", "f2"}

\* The configured list of tracked accounts.  The repository configures one
\* id; the list is kept as a list and given two ids so that passes with one
\* failed and one fetched account occur.
STEAM_ACCOUNTS == <<"A1", "A2">>

Accounts == {STEAM_ACCOUNTS[i] : i \in 1..Len(STEAM_ACCOUNTS)}

Range(s) == {s[i] : i \in 1..Len(s)}

SeqsUpTo(S, n) == UNION {[1..k -> S] : k \in 0..n}

\* every friend_ids list a 200 response can carry (repeated ids included)
FriendLists == SeqsUpTo(FriendIds, MaxListLen)

\* all orders in which Python may iterate a set
Orderings(S) ==
    {s \in [1..Cardinality(S) -> S] : \A i, j \in 1..Cardinality(S) : s[i] = s[j] => i = j}

----------------------------------------------------------------------------
(* get_profile_link *)

get_profile_link(steam_id) == <<"steamcommunity.com/profiles/", steam_id>>

NoLink == <<"", "">>

----------------------------------------------------------------------------
(* JSON values of DATA_FILE.  An entry of the top-level object is          *)
(*   shape "entry"           : {"profile_link":..,"friends":[..],"count":n} *)
(*   shape "no_friends"      : an object without the key "friends"          *)
(*   shape "not_object"      : a value that is not an object                *)
(*   shape "friends_not_list": an object whose "friends" is a number        *)

Entry(steam_id, friend_ids) ==
    [shape |-> "entry", profile_link |-> get_profile_link(steam_id),
     friends |-> friend_ids, count |-> Len(friend_ids)]

Malformed(shape) ==
    [shape |-> shape, profile_link |-> NoLink, friends |-> <<>>, count |-> 0]

MalformedEntries ==
    {Malformed("no_friends"), Malformed("not_object"), Malformed("friends_not_list")}

EmptyMap == [a \in {} |-> Malformed("not_object")]

\* kind: "missing" (no file), "unparseable" (json.load raises),
\*       "null" / "array" (valid JSON, top level null / []), "object"
File(kind, map) == [kind |-> kind, map |-> map]

InitEntries(a) == MalformedEntries \cup {Entry(a, fl) : fl \in FriendLists}

InitMaps ==
    UNION {{m \in [D -> UNION {InitEntries(a) : a \in D}] :
                \A a \in D : m[a] \in InitEntries(a)} : D \in SUBSET Accounts}

InitFiles ==
    {File(k, EmptyMap) : k \in {"missing", "unparseable", "null", "array"}}
        \cup {File("object", m) : m \in InitMaps}

----------------------------------------------------------------------------
(* load_previous_data: json.load of the file; any exception gives {} *)

load_previous_data(file) ==
    IF file.kind \in {"missing", "unparseable"}
    THEN File("object", EmptyMap)
    ELSE file

----------------------------------------------------------------------------
(* fetch_friend_list: the outcomes of one fetch task.                      *)
(* status "200" carries the list; "403", "other" and "error" return None.  *)

Pending == [status |-> "pending", friend_ids |-> <<>>]

FetchOutcomes ==
    {[status |-> "200", friend_ids |-> fl] : fl \in FriendLists}
        \cup {[status |-> s, friend_ids |-> <<>>] : s \in {"403", "other", "error"}}

\* a 403 taken for an empty friend list
IsNoneUnless403(r) == r.status \notin {"200", "403"}

\* friend_ids is None
IsNone(r) == r.status # "200"

----------------------------------------------------------------------------
(* Messages: a message is the sequence of its lines, a line the record of  *)
(* its fixed text and the values formatted into it.                        *)

Line(text, link, n) == [text |-> text, link |-> link, n |-> n]

EmptyLine == Line("", NoLink, 0)

\* lines 163-164 taken for every batch, the test of line 161 dropped
NewFriendsAlwaysList(links) ==
    <<Line("New friends detected", NoLink, Len(links)), EmptyLine>>
        \o [i \in 1..Len(links) |-> Line("* ", links[i], 0)]

\* lines 161-165
NewFriendsMessage(links) ==
    IF Len(links) = 1
    THEN <<Line("New friend: ", links[1], 0)>>
    ELSE <<Line("New friends detected", NoLink, Len(links)), EmptyLine>>
            \o [i \in 1..Len(links) |-> Line("* ", links[i], 0)]

RECURSIVE SumCounts(_, _)
SumCounts(data, keys) ==
    IF keys = {} THEN 0
    ELSE LET k == CHOOSE x \in keys : TRUE
         IN data[k].count + SumCounts(data, keys \ {k})

\* lines 174-183
SetupMessage(data) ==
    LET total_accounts == Cardinality(DOMAIN data)
        private_accounts == Len(STEAM_ACCOUNTS) - total_accounts
        total_friends == SumCounts(data, DOMAIN data)
    IN <<Line("Steam Friend ID Monitor Setup Complete", NoLink, 0), EmptyLine,
         Line("Monitoring accounts", NoLink, total_accounts),
         Line("Total friends being tracked", NoLink, total_friends)>>
        \o (IF private_accounts > 0
            THEN <<Line("accounts are private", NoLink, private_accounts)>>
            ELSE <<>>)
        \o <<EmptyLine, Line("Bot will now notify", NoLink, 0)>>

\* lines 189-191
SummaryMessage(entry) ==
    <<Line("Account Summary", NoLink, 0), EmptyLine,
      Line("Account: ", entry.profile_link, 0),
      Line("Friends: ", NoLink, entry.count), EmptyLine>>

\* the keys of current_data in insertion order (dict order of line 188)
InsertionOrder(data) ==
    LET F[i \in 0..Len(STEAM_ACCOUNTS)] ==
            IF i = 0 THEN <<>>
            ELSE IF STEAM_ACCOUNTS[i] \in DOMAIN data
                 THEN Append(F[i - 1], STEAM_ACCOUNTS[i])
                 ELSE F[i - 1]
    IN F[Len(STEAM_ACCOUNTS)]

----------------------------------------------------------------------------
(* send_telegram_message is idle while a pass is modelled *)

NoMessage == <<>>

ChunkIdle ==
    /\ message = NoMessage
    /\ lines = <<>>
    /\ line_no = 0
    /\ current_chunk = <<>>
    /\ transport = <<>>
    /\ cpc = "idle"

----------------------------------------------------------------------------
(* _send_single_message: a call is in flight until session.post has given  *)
(* a response or raised; the caller awaits it.                              *)

InFlight == "in_flight"

\* lines 88-94: status 200, another status, or an exception of the request
DeliveryOutcomes == {"ok", "non200", "error"}

\* line 88: the request is issued
IssueCall(calls) == Append(calls, InFlight)

IsInFlight(call) == call = InFlight

\* lines 55-56 called from lines 166, 185 or 192: a message below the ceiling
\* is one call; the record of the calls starts anew with each message, the
\* calls still in flight staying in it
SendMessage(calls) == IssueCall(SelectSeq(calls, IsInFlight))

\* the awaits of lines 56, 66, 70, 76, 166, 185 and 192 given up
AwaitedNever(calls) == TRUE

\* the awaits of lines 56, 66, 70, 76, 166, 185 and 192: the caller goes on
\* once no call is in flight
Awaited(calls) == \A i \in 1..Len(calls) : calls[i] # InFlight

\* _send_single_message letting a failed delivery out
SendReturnsOnlyOk(outcome) == outcome = "ok"

\* lines 87-94: every outcome is logged and the call returns normally
SendReturns(outcome) == TRUE

\* fetch_friend_list letting the exception of a request out
FetchRaisesOnError(r) == r.status = "error"

\* lines 33-49: no outcome of a fetch leaves fetch_friend_list as an exception
FetchRaises(r) == FALSE

\* no pass has reached its end yet
NoResults == [a \in Accounts |-> [status |-> "none", friend_ids |-> <<>>]]

----------------------------------------------------------------------------
(* The pass: check_accounts *)

Init ==
    /\ init_file \in BOOLEAN
    /\ data_file \in InitFiles
    /\ pc = "idle"
    /\ first_run = FALSE
    /\ previous_data = File("object", EmptyMap)
    /\ current_data = EmptyMap
    /\ all_new_friends = <<>>
    /\ results = [a \in Accounts |-> Pending]
    /\ idx = 0
    /\ sent = <<>>
    /\ log = {}
    /\ saved = FALSE
    /\ first_runs = 0
    /\ last_results = NoResults
    /\ deliveries = <<>>
    /\ ChunkIdle

\* is_first_run: its return value, given whether INIT_FILE exists
is_first_run(exists) == ~exists

\* is_first_run without the write of lines 113-114
init_file_kept(exists) == exists

\* is_first_run: INIT_FILE after the call (created when it was absent)
init_file_after(exists) == TRUE

\* lines 119-125: the process starts, reads both files and issues all fetches
StartPass ==
    /\ pc \in {"idle", "done", "aborted_diffing", "aborted_persisting"}
    /\ Awaited(deliveries)
    /\ last_results' = IF pc = "done" THEN results ELSE NoResults
    /\ deliveries' = <<>>
    /\ first_run' = is_first_run(init_file)
    /\ init_file' = init_file_after(init_file)
    /\ first_runs' = IF is_first_run(init_file) /\ first_runs < 2
                     THEN first_runs + 1 ELSE first_runs
    /\ previous_data' = load_previous_data(data_file)
    /\ current_data' = EmptyMap
    /\ all_new_friends' = <<>>
    /\ results' = [a \in Accounts |-> Pending]
    /\ idx' = 0
    /\ sent' = <<>>
    /\ log' = {}
    /\ saved' = FALSE
    /\ pc' = "fetching"
    /\ UNCHANGED <<data_file, chunkvars>>

\* lines 28-49: one fetch task completes, in any order among the tasks
FetchComplete(a) ==
    /\ pc = "fetching"
    /\ results[a] = Pending
    /\ \E r \in FetchOutcomes :
        /\ results' = [results EXCEPT ![a] = r]
        /\ pc' = IF FetchRaises(r) THEN "aborted_fetching" ELSE pc
    /\ UNCHANGED <<init_file, data_file, first_run, previous_data, current_data,
                   all_new_friends, idx, sent, log, saved, first_runs, last_results,
                   deliveries, chunkvars>>

\* a gather that returns with the first task that completes
GatherAny(res) == \E a \in Accounts : res[a] # Pending

\* line 126: asyncio.gather returns once every task has completed
GatherDone(res) == \A a \in Accounts : res[a] # Pending

Gather ==
    /\ pc = "fetching"
    /\ GatherDone(results)
    /\ pc' = "diffing"
    /\ idx' = 1
    /\ UNCHANGED <<init_file, data_file, first_run, previous_data, current_data,
                   all_new_friends, results, sent, log, saved, first_runs, last_results,
                   deliveries, chunkvars>>

\* line 139: steam_id not in previous_data
\*   raises TypeError when the top level is null; an array [] has no member
KeyTestRaises(prev) == prev.kind = "null"
HasKey(prev, steam_id) == prev.kind = "object" /\ steam_id \in DOMAIN prev.map

\* line 139 without its test of the key
SkipDetectionFirstRunOnly(first, prev, steam_id) == first

\* line 139: the change detection of this account is skipped
SkipDetection(first, prev, steam_id) == first \/ ~HasKey(prev, steam_id)

\* line 142: previous_data[steam_id], a KeyError when the key is absent
PreviousEntry(prev, steam_id) ==
    IF HasKey(prev, steam_id) THEN prev.map[steam_id] ELSE Malformed("key_error")

\* line 142: previous_data[steam_id].get('friends', []) and set(...)
\*   .get raises AttributeError on a non-object, set raises TypeError on a number
PreviousRaises(entry) == entry.shape \in {"key_error", "not_object", "friends_not_list"}

\* line 142 always taking the default of .get: the baseline read as empty
PreviousFriendsDefault(entry) == {}

\* line 142: the set of the stored list, the default [] without the key
PreviousFriends(entry) ==
    IF entry.shape = "no_friends" THEN {} ELSE Range(entry.friends)

\* removed relations notified like added ones
NewFriendsOrRemoved(current_friends, previous_friends) ==
    (current_friends \ previous_friends) \cup (previous_friends \ current_friends)

\* the operands of line 146 exchanged
NewFriendsSwapped(current_friends, previous_friends) == previous_friends \ current_friends

\* line 146 and line 154
NewFriends(current_friends, previous_friends) == current_friends \ previous_friends
RemovedFriends(current_friends, previous_friends) == previous_friends \ current_friends

LogNew(friend_id, steam_id) == [event |-> "new", friend |-> friend_id, account |-> steam_id]
LogRemoved(friend_id, steam_id) == [event |-> "removed", friend |-> friend_id, account |-> steam_id]

\* lines 148-150: the links are appended in the order of the iteration
AppendLinks(batch, links) == batch \o links

\* lines 132-136
AddEntry(data, steam_id, friend_ids) ==
    [a \in DOMAIN data \cup {steam_id} |->
        IF a = steam_id THEN Entry(steam_id, friend_ids) ELSE data[a]]

NextAfterDiff(i) == IF i = Len(STEAM_ACCOUNTS) THEN "notifying" ELSE "diffing"

\* lines 128-157: one iteration of the loop over results
DiffAccount ==
    /\ pc = "diffing"
    /\ idx \in 1..Len(STEAM_ACCOUNTS)
    /\ LET steam_id == STEAM_ACCOUNTS[idx]
           r == results[steam_id]
       IN \/ \* lines 129-130
             /\ IsNone(r)
             /\ pc' = NextAfterDiff(idx)
             /\ idx' = idx + 1
             /\ UNCHANGED <<current_data, all_new_friends, log>>
          \/ \* lines 132-140
             /\ ~IsNone(r)
             /\ ~(~first_run /\ KeyTestRaises(previous_data))
             /\ SkipDetection(first_run, previous_data, steam_id)
             /\ current_data' = AddEntry(current_data, steam_id, r.friend_ids)
             /\ pc' = NextAfterDiff(idx)
             /\ idx' = idx + 1
             /\ UNCHANGED <<all_new_friends, log>>
          \/ \* lines 139, 142: the exception leaves check_accounts
             /\ ~IsNone(r)
             /\ ~first_run
             /\ \/ KeyTestRaises(previous_data)
                \/ /\ ~SkipDetection(first_run, previous_data, steam_id)
                   /\ PreviousRaises(PreviousEntry(previous_data, steam_id))
             /\ current_data' = AddEntry(current_data, steam_id, r.friend_ids)
             /\ pc' = "aborted_diffing"
             /\ UNCHANGED <<idx, all_new_friends, log>>
          \/ \* lines 142-157
             /\ ~IsNone(r)
             /\ ~KeyTestRaises(previous_data)
             /\ ~SkipDetection(first_run, previous_data, steam_id)
             /\ ~PreviousRaises(PreviousEntry(previous_data, steam_id))
             /\ LET previous_friends ==
                        PreviousFriends(PreviousEntry(previous_data, steam_id))
                    current_friends == Range(r.friend_ids)
                    new_friends == NewFriends(current_friends, previous_friends)
                    removed_friends == RemovedFriends(current_friends, previous_friends)
                IN /\ \E order \in Orderings(new_friends) :
                        all_new_friends' = AppendLinks(all_new_friends,
                            [i \in 1..Len(order) |-> get_profile_link(order[i])])
                   /\ log' = log \cup {LogNew(f, steam_id) : f \in new_friends}
                                 \cup {LogRemoved(f, steam_id) : f \in removed_friends}
             /\ current_data' = AddEntry(current_data, steam_id, r.friend_ids)
             /\ pc' = NextAfterDiff(idx)
             /\ idx' = idx + 1
    /\ UNCHANGED <<init_file, data_file, first_run, previous_data, results, sent,
                   saved, first_runs, last_results, deliveries, chunkvars>>

\* line 160
ShouldNotify(batch, first) == batch # <<>> /\ ~first

\* lines 159-167: the batched notification
Notify ==
    /\ pc = "notifying"
    /\ sent' = IF ShouldNotify(all_new_friends, first_run)
               THEN Append(sent, NewFriendsMessage(all_new_friends))
               ELSE sent
    /\ deliveries' = IF ShouldNotify(all_new_friends, first_run)
                     THEN SendMessage(deliveries)
                     ELSE deliveries
    /\ pc' = "persisting"
    /\ UNCHANGED <<init_file, data_file, first_run, previous_data, current_data,
                   all_new_friends, results, idx, log, saved, first_runs, last_results, chunkvars>>

\* save_data: the file after a successful json.dump
save_data(data) == File("object", data)

\* the first-run branch of line 172 always taken
AfterSaveSetup(first) == "setup"

\* the first-run branch of line 172 never taken
AfterSaveDone(first) == "done"

\* lines 172 and 193-194: where the pass goes once save_data has returned
AfterSave(first) == IF first THEN "setup" ELSE "done"

\* the exception of save_data caught and the pass carried on
AfterSaveRaisesSwallowed(first) == AfterSave(first)

\* lines 106-107 and 170: nothing catches an exception of save_data
AfterSaveRaises(first) == "aborted_persisting"

\* lines 169-170: save_data returns, or open/json.dump raises and the
\* exception leaves check_accounts with the file untouched or truncated
SaveData ==
    /\ pc = "persisting"
    /\ Awaited(deliveries)
    /\ \/ /\ data_file' = save_data(current_data)
          /\ saved' = TRUE
          /\ pc' = AfterSave(first_run)
       \/ /\ data_file' \in {data_file, File("unparseable", EmptyMap)}
          /\ pc' = AfterSaveRaises(first_run)
          /\ UNCHANGED saved
    /\ UNCHANGED <<init_file, first_run, previous_data, current_data, all_new_friends,
                   results, idx, sent, log, first_runs, last_results, deliveries,
                   chunkvars>>

\* lines 172-185: the setup message of a first run
SendSetup ==
    /\ pc = "setup"
    /\ Awaited(deliveries)
    /\ sent' = Append(sent, SetupMessage(current_data))
    /\ deliveries' = SendMessage(deliveries)
    /\ pc' = "summaries"
    /\ idx' = 1
    /\ UNCHANGED <<init_file, data_file, first_run, previous_data, current_data,
                   all_new_friends, results, log, saved, first_runs, last_results, chunkvars>>

\* lines 187-192: one account summary per entry of current_data
SendSummary ==
    /\ pc = "summaries"
    /\ Awaited(deliveries)
    /\ LET order == InsertionOrder(current_data)
       IN \/ /\ idx <= Len(order)
             /\ sent' = Append(sent, SummaryMessage(current_data[order[idx]]))
             /\ deliveries' = SendMessage(deliveries)
             /\ idx' = idx + 1
             /\ UNCHANGED pc
          \/ /\ idx > Len(order)
             /\ pc' = "done"
             /\ UNCHANGED <<sent, idx, deliveries>>
    /\ UNCHANGED <<init_file, data_file, first_run, previous_data, current_data,
                   all_new_friends, results, log, saved, first_runs, last_results, chunkvars>>

\* lines 88-94: the call in flight gets its response or raises
DeliveryComplete ==
    /\ pc \in {"persisting", "summaries"}
    /\ \E i \in 1..Len(deliveries) : \E o \in DeliveryOutcomes :
        /\ deliveries[i] = InFlight
        /\ deliveries' = [deliveries EXCEPT ![i] = o]
        /\ pc' = IF SendReturns(o) THEN pc ELSE "aborted_sending"
    /\ UNCHANGED <<init_file, data_file, first_run, previous_data, current_data,
                   all_new_friends, results, idx, sent, log, saved, first_runs,
                   last_results, chunkvars>>

Next ==
    \/ StartPass
    \/ \E a \in Accounts : FetchComplete(a)
    \/ Gather
    \/ DiffAccount
    \/ Notify
    \/ SaveData
    \/ SendSetup
    \/ SendSummary
    \/ DeliveryComplete

Spec == Init /\ [][Next]_vars

\* line 197: asyncio.run drives the coroutine as long as it can take a step;
\* every fetch ends by its response or the timeout of line 34, every delivery
\* by its response or the session's default timeout (lines 86-88)
SpecFair == Spec /\ WF_vars(Next)

----------------------------------------------------------------------------
(* Strings of send_telegram_message.  A string is kept exactly, as the     *)
(* sequence of its maximal runs of one character: "aaa\n\nb" is            *)
(* <<[ch |-> "a", n |-> 3], [ch |-> "\n", n |-> 2], [ch |-> "b", n |-> 1]>> *)

\* line 53
MAX_MESSAGE_LENGTH == 4000

\* longest message of the model, in runs
MaxRuns == 4

NL == "\n"
Chars == {"a", " ", NL}

\* run lengths around the ceiling; a run of newlines is one or two long
RunLens(ch) ==
    IF ch = NL THEN {1, 2}
    ELSE {1, MAX_MESSAGE_LENGTH - 2, MAX_MESSAGE_LENGTH - 1, MAX_MESSAGE_LENGTH,
          MAX_MESSAGE_LENGTH + 1}

Runs == UNION {{[ch |-> c, n |-> k] : k \in RunLens(c)} : c \in Chars}

Messages ==
    {m \in SeqsUpTo(Runs, MaxRuns) : \A i \in 1..(Len(m) - 1) : m[i].ch # m[i + 1].ch}

EmptyStr == <<>>
Newline == <<[ch |-> NL, n |-> 1]>>

\* len(s)
RECURSIVE StrLen(_)
StrLen(s) == IF s = <<>> THEN 0 ELSE s[1].n + StrLen(Tail(s))

\* s + t
Concat(s, t) ==
    IF s = <<>> THEN t
    ELSE IF t = <<>> THEN s
    ELSE IF s[Len(s)].ch = t[1].ch
         THEN SubSeq(s, 1, Len(s) - 1)
                \o <<[ch |-> t[1].ch, n |-> s[Len(s)].n + t[1].n]>> \o Tail(t)
         ELSE s \o t

\* s.split('\n'): cur is the line being read, acc the lines already closed
RECURSIVE SplitFrom(_, _, _, _)
SplitFrom(s, i, cur, acc) ==
    IF i > Len(s) THEN Append(acc, cur)
    ELSE IF s[i].ch = NL
         THEN SplitFrom(s, i + 1, EmptyStr,
                        Append(acc, cur) \o [k \in 1..(s[i].n - 1) |-> EmptyStr])
         ELSE SplitFrom(s, i + 1, Append(cur, s[i]), acc)

Split(s) == SplitFrom(s, 1, EmptyStr, <<>>)

IsSpace(ch) == ch \in {" ", NL}

RECURSIVE LStrip(_)
LStrip(s) == IF s # <<>> /\ IsSpace(s[1].ch) THEN LStrip(Tail(s)) ELSE s

RECURSIVE RStrip(_)
RStrip(s) ==
    IF s # <<>> /\ IsSpace(s[Len(s)].ch) THEN RStrip(SubSeq(s, 1, Len(s) - 1)) ELSE s

\* s.strip()
Strip(s) == RStrip(LStrip(s))

\* s[:k]
RECURSIVE Prefix(_, _)
Prefix(s, k) ==
    IF s = <<>> \/ k = 0 THEN <<>>
    ELSE IF s[1].n <= k THEN <<s[1]>> \o Prefix(Tail(s), k - s[1].n)
         ELSE <<[ch |-> s[1].ch, n |-> k]>>

----------------------------------------------------------------------------
(* send_telegram_message *)

PassIdle ==
    /\ init_file = TRUE
    /\ data_file = File("missing", EmptyMap)
    /\ pc = "idle"
    /\ first_run = FALSE
    /\ previous_data = File("object", EmptyMap)
    /\ current_data = EmptyMap
    /\ all_new_friends = <<>>
    /\ results = [a \in Accounts |-> Pending]
    /\ idx = 0
    /\ sent = <<>>
    /\ log = {}
    /\ saved = FALSE
    /\ first_runs = 0
    /\ last_results = NoResults

InitChunk ==
    /\ message \in Messages
    /\ lines = <<>>
    /\ line_no = 0
    /\ current_chunk = EmptyStr
    /\ transport = <<>>
    /\ deliveries = <<>>
    /\ cpc = "called"
    /\ PassIdle

\* _send_single_message: one call of the transport with this text
send_single_message(calls, text) == Append(calls, text)

\* line 55
FitsCeiling(s) == StrLen(s) <= MAX_MESSAGE_LENGTH

\* lines 55-56
SendWhole ==
    /\ cpc = "called"
    /\ FitsCeiling(message)
    /\ transport' = send_single_message(transport, message)
    /\ deliveries' = IssueCall(deliveries)
    /\ cpc' = "finishing"
    /\ UNCHANGED <<message, lines, line_no, current_chunk, passvars>>

\* lines 57-60
SplitMessage ==
    /\ cpc = "called"
    /\ ~FitsCeiling(message)
    /\ lines' = Split(message)
    /\ line_no' = 1
    /\ current_chunk' = EmptyStr
    /\ cpc' = "splitting"
    /\ UNCHANGED <<message, transport, deliveries, passvars>>

\* line 64
WouldExceed(chunk, line) ==
    StrLen(Concat(Concat(chunk, line), Newline)) > MAX_MESSAGE_LENGTH

\* line 70
Truncated(line) == Prefix(line, MAX_MESSAGE_LENGTH)

\* lines 62-72: one iteration of the loop over lines
ProcessLine ==
    /\ cpc = "splitting"
    /\ Awaited(deliveries)
    /\ line_no <= Len(lines)
    /\ LET line == lines[line_no]
       IN \/ \* lines 65-67
             /\ WouldExceed(current_chunk, line)
             /\ current_chunk # EmptyStr
             /\ transport' = send_single_message(transport, Strip(current_chunk))
             /\ deliveries' = IssueCall(deliveries)
             /\ current_chunk' = Concat(line, Newline)
          \/ \* lines 68-70
             /\ WouldExceed(current_chunk, line)
             /\ current_chunk = EmptyStr
             /\ transport' = send_single_message(transport, Truncated(line))
             /\ deliveries' = IssueCall(deliveries)
             /\ UNCHANGED current_chunk
          \/ \* lines 71-72
             /\ ~WouldExceed(current_chunk, line)
             /\ current_chunk' = Concat(Concat(current_chunk, line), Newline)
             /\ UNCHANGED <<transport, deliveries>>
    /\ line_no' = line_no + 1
    /\ UNCHANGED <<message, lines, cpc, passvars>>

\* lines 74-76
SendRemaining ==
    /\ cpc = "splitting"
    /\ Awaited(deliveries)
    /\ line_no > Len(lines)
    /\ transport' = IF current_chunk # EmptyStr
                    THEN send_single_message(transport, Strip(current_chunk))
                    ELSE transport
    /\ deliveries' = IF current_chunk # EmptyStr
                     THEN IssueCall(deliveries)
                     ELSE deliveries
    /\ cpc' = IF current_chunk # EmptyStr THEN "finishing" ELSE "returned"
    /\ UNCHANGED <<message, lines, line_no, current_chunk, passvars>>

\* lines 88-94: the call in flight gets its response or raises; the call of
\* lines 56 and 76 is the last thing send_telegram_message awaits
ChunkDeliveryComplete ==
    /\ cpc \in {"splitting", "finishing"}
    /\ \E i \in 1..Len(deliveries) : \E o \in DeliveryOutcomes :
        /\ deliveries[i] = InFlight
        /\ deliveries' = [deliveries EXCEPT ![i] = o]
        /\ cpc' = IF ~SendReturns(o) THEN "raised"
                  ELSE IF cpc = "finishing" THEN "returned" ELSE cpc
    /\ UNCHANGED <<message, lines, line_no, current_chunk, transport, passvars>>

NextChunk ==
    \/ SendWhole
    \/ SplitMessage
    \/ ProcessLine
    \/ SendRemaining
    \/ ChunkDeliveryComplete

SpecChunk == InitChunk /\ [][NextChunk]_vars

\* the event loop drives send_telegram_message as long as it can take a
\* step; every delivery ends, by its response or by the session's default
\* timeout (lines 86-88)
SpecChunkFair == SpecChunk /\ WF_vars(NextChunk)

----------------------------------------------------------------------------
(* Properties of the pass (Spec) *)

Failed(r) == r.status \in {"403", "other", "error"}
Fetched(a) == results[a].status = "200"

\* the tracked accounts fetched in this pass, in the order of STEAM_ACCOUNTS
FetchedAccounts == SelectSeq(STEAM_ACCOUNTS, Fetched)

\* the account of the running iteration of the loop over results
LoopAccount == STEAM_ACCOUNTS[idx]

\* an iteration of the loop over results has run to its end
IterationDone == pc = "diffing" /\ idx' = idx + 1

IsDiffNotification(msg) == msg[1].text \in {"New friend: ", "New friends detected"}
IsSetupMessage(msg) == msg[1].text = "Steam Friend ID Monitor Setup Complete"
IsSummaryMessage(msg) == msg[1].text = "Account Summary"

\* C1: once a pass has written the snapshot, the snapshot is an object whose
\* keys are exactly the tracked accounts whose fetch returned a list in that
\* pass; an account whose fetch gave 403, another status or an error is not
\* a key, whatever the previous snapshot held.
C1_SnapshotKeysAreFetched ==
    saved =>
        /\ data_file.kind = "object"
        /\ DOMAIN data_file.map = {a \in Accounts : Fetched(a)}
        /\ \A a \in Accounts : Failed(results[a]) => a \notin DOMAIN data_file.map

\* a written snapshot that dropped an account the previous snapshot held
C1_Witness ==
    /\ saved
    /\ \E a, b \in Accounts :
        /\ Failed(results[a])
        /\ HasKey(previous_data, a)
        /\ a \notin DOMAIN data_file.map
        /\ Fetched(b)
        /\ b \in DOMAIN data_file.map

\* C2: in a pass that is not a first run, the iteration for a fetched account
\* with an entry in the previous snapshot logs as new exactly current \ previous
\* and as removed exactly previous \ current, the two are disjoint, the batch
\* grows by exactly the links of current \ previous, and by nothing when
\* current = previous.
C2_DiffIsSetDifference ==
    [][(/\ IterationDone
        /\ ~first_run
        /\ Fetched(LoopAccount)
        /\ HasKey(previous_data, LoopAccount))
       => LET a == LoopAccount
              prev == Range(previous_data.map[a].friends)
              cur == Range(results[a].friend_ids)
              added == {f \in FriendIds : LogNew(f, a) \in log' \ log}
              removed == {f \in FriendIds : LogRemoved(f, a) \in log' \ log}
              links == SubSeq(all_new_friends', Len(all_new_friends) + 1,
                              Len(all_new_friends'))
          IN /\ added = cur \ prev
             /\ removed = prev \ cur
             /\ added \cap removed = {}
             /\ all_new_friends' = all_new_friends \o links
             /\ Range(links) = {get_profile_link(f) : f \in cur \ prev}
             /\ Len(links) = Cardinality(cur \ prev)
             /\ (cur = prev => all_new_friends' = all_new_friends)]_vars

\* a pass past its change detection that found an added and a removed
\* relation for the same account
C2_Witness ==
    /\ ~first_run
    /\ pc = "notifying"
    /\ \E a \in Accounts : \E f, g \in FriendIds :
        /\ LogNew(f, a) \in log
        /\ LogRemoved(g, a) \in log

\* C3: in a first-run pass no added-relations notification is ever sent, and
\* when the pass is done the messages sent are the setup message followed by
\* one account summary per fetched account, in the order of the accounts.
C3_FirstRunMessages ==
    first_run =>
        /\ \A i \in 1..Len(sent) : ~IsDiffNotification(sent[i])
        /\ pc = "done" =>
            /\ Len(sent) = 1 + Len(FetchedAccounts)
            /\ IsSetupMessage(sent[1])
            /\ \A i \in 1..Len(FetchedAccounts) :
                sent[i + 1] = SummaryMessage(Entry(FetchedAccounts[i],
                                                   results[FetchedAccounts[i]].friend_ids))

\* a finished first run whose previous snapshot lacked a relation that was
\* fetched, and in which one account failed
C3_Witness ==
    /\ first_run
    /\ pc = "done"
    /\ \E a, b \in Accounts :
        /\ Fetched(a)
        /\ HasKey(previous_data, a)
        /\ previous_data.map[a].shape = "entry"
        /\ Range(results[a].friend_ids) \ Range(previous_data.map[a].friends) # {}
        /\ Failed(results[b])

\* C4: the sentinel, once it exists, exists in every later state; every
\* running pass sees it; at most one pass ever starts with first_run true, and
\* a pass that starts while the sentinel exists has first_run false.
C4_SentinelPermanent ==
    /\ [](first_runs <= 1 /\ (pc # "idle" => init_file))
    /\ [][init_file => init_file']_vars
    /\ [][(pc # "fetching" /\ pc' = "fetching" /\ init_file) => ~first_run']_vars

\* a later pass that is not a first run although no pass has written the
\* snapshot yet: the first run failed in save_data
C4_Witness ==
    /\ first_runs = 1
    /\ ~first_run
    /\ pc = "fetching"
    /\ data_file.kind = "missing"

\* C7: in a pass that is not a first run and in which every fetched account
\* with an entry in the previous snapshot has a current set that is a subset
\* of its previous set, no message is ever handed to send_telegram_message.
C7_RemovalsNeverNotify ==
    (/\ ~first_run
     /\ pc # "idle"
     /\ \A a \in Accounts :
            (Fetched(a) /\ HasKey(previous_data, a))
                => Range(results[a].friend_ids) \subseteq Range(previous_data.map[a].friends))
        => sent = <<>>

\* a finished pass that logged a removed relation and sent nothing
C7_Witness ==
    /\ ~first_run
    /\ pc = "done"
    /\ sent = <<>>
    /\ \E a \in Accounts : \E g \in FriendIds : LogRemoved(g, a) \in log

\* an iteration of the loop over results has run, to its end or to an exception
IterationRun == pc = "diffing" /\ (idx' = idx + 1 \/ pc' = "aborted_diffing")

\* C8: the iteration for a fetched account that is no key of the previous
\* snapshot (an object or an array at top level) runs to its end, leaves the
\* batch and the log as they were, sends nothing, and gives the account its
\* entry in the new snapshot.
C8_NoBaselineNoLinks ==
    [][(/\ IterationRun
        /\ Fetched(LoopAccount)
        /\ ~KeyTestRaises(previous_data)
        /\ ~HasKey(previous_data, LoopAccount))
       => /\ idx' = idx + 1
          /\ all_new_friends' = all_new_friends
          /\ log' = log
          /\ sent' = sent
          /\ LoopAccount \in DOMAIN current_data'
          /\ current_data'[LoopAccount] =
                Entry(LoopAccount, results[LoopAccount].friend_ids)]_vars

\* a pass past its change detection with an empty batch although an account
\* without a previous entry was fetched with relations
C8_Witness ==
    /\ ~first_run
    /\ pc = "notifying"
    /\ all_new_friends = <<>>
    /\ \E a \in Accounts :
        /\ Fetched(a)
        /\ results[a].friend_ids # <<>>
        /\ ~HasKey(previous_data, a)
        /\ a \in DOMAIN current_data

\* the last message handed to send_telegram_message by this step
LastSent == sent'[Len(sent')]
Sends == Len(sent') > Len(sent)

\* the order of the positions of a pass
PassOrder ==
    {<<p, "fetching">> : p \in {"idle", "done", "aborted_diffing", "aborted_persisting"}}
        \cup {<<"fetching", "diffing">>, <<"diffing", "notifying">>,
              <<"diffing", "aborted_diffing">>, <<"notifying", "persisting">>,
              <<"persisting", "setup">>, <<"persisting", "done">>,
              <<"persisting", "aborted_persisting">>,
              <<"setup", "summaries">>, <<"summaries", "done">>}

\* C9 as stated: every message of a pass is sent before the snapshot is
\* written, none after it.
C9_AllSendsBeforeSave ==
    [][Sends => ~saved]_vars

\* C9 amended: the positions of a pass follow one another in the order
\* fetching, diffing, notifying, persisting, done; the added-relations
\* notification is sent while notifying, before the snapshot is written, in a
\* pass that is not a first run; every other message is the setup message or
\* an account summary of a first run and is sent after the snapshot was
\* written.
C9_OrderOfPass ==
    /\ [][pc' # pc => <<pc, pc'>> \in PassOrder]_vars
    /\ [][Sends =>
            \/ /\ IsDiffNotification(LastSent)
               /\ pc = "notifying"
               /\ ~saved
               /\ ~first_run
            \/ /\ IsSetupMessage(LastSent) \/ IsSummaryMessage(LastSent)
               /\ pc \in {"setup", "summaries"}
               /\ saved
               /\ first_run]_vars

\* a first run that has sent an account summary after writing the snapshot
C9_Witness ==
    /\ first_run
    /\ saved
    /\ \E i \in 1..Len(sent) : IsSummaryMessage(sent[i])

\* C10: a previous snapshot that is missing, unparseable or malformed never
\* makes the pass raise, and no change is detected against a top level that
\* is no object or an entry that is no well-formed entry.
C10_MalformedIsEmptyBaseline ==
    /\ pc # "aborted_diffing"
    /\ previous_data.kind # "object" => log = {}
    /\ \A a \in Accounts :
        (HasKey(previous_data, a) /\ previous_data.map[a].shape # "entry")
            => \A f \in FriendIds : LogNew(f, a) \notin log /\ LogRemoved(f, a) \notin log

\* the pass has raised out of check_accounts
Aborted == pc \in {"aborted_fetching", "aborted_diffing", "aborted_sending",
                   "aborted_persisting"}

\* some call of _send_single_message of the pass ended without a 200
DeliveryFailed == \E i \in 1..Len(deliveries) : deliveries[i] \in {"non200", "error"}

\* C11: whatever the outcomes of the fetches (200, 403, other status, error)
\* and of the deliveries (200, other status, error), none of them makes the
\* pass raise, and every pass that has started reaches the end with the
\* snapshot written; the only passes that do not are those that raise at
\* line 142 on a malformed previous snapshot (C10) or in save_data (C13).
C11_PassReachesDone ==
    /\ [](pc \notin {"aborted_fetching", "aborted_sending"})
    /\ [](Aborted =>
            \/ /\ pc = "aborted_diffing"
               /\ ~first_run
               /\ ~IsNone(results[LoopAccount])
               /\ \/ KeyTestRaises(previous_data)
                  \/ PreviousRaises(PreviousEntry(previous_data, LoopAccount))
            \/ /\ pc = "aborted_persisting"
               /\ ~saved)
    /\ (pc = "fetching") ~> ((pc = "done" /\ saved /\ data_file = save_data(current_data))
                                \/ pc \in {"aborted_diffing", "aborted_persisting"})

\* a pass ended with its snapshot written although a fetch and a delivery
\* failed
C11_Witness ==
    /\ pc = "done"
    /\ saved
    /\ \E a \in Accounts : Failed(results[a])
    /\ DeliveryFailed

\* the pass is past the notification of lines 159-167
Notified == pc \in {"persisting", "setup", "summaries", "done", "aborted_persisting"}

HasLink(line) == line.link # NoLink

\* C12: past the notification of a pass that is no first run and has a
\* non-empty batch, exactly one message was sent; for a batch of one link it
\* is the single line "New friend: " with that link and no header; for a batch
\* of n >= 2 links it is the header carrying n, a blank line, and exactly n
\* link lines, the i-th holding the i-th link of the batch.
C12_OneComposedNotification ==
    (Notified /\ ~first_run /\ all_new_friends # <<>>) =>
        /\ Len(sent) = 1
        /\ LET msg == sent[1]
               n == Len(all_new_friends)
               link_lines == SelectSeq(msg, HasLink)
           IN /\ Len(link_lines) = n
              /\ \A i \in 1..n : link_lines[i].link = all_new_friends[i]
              /\ n = 1 => /\ Len(msg) = 1
                          /\ msg[1].text = "New friend: "
              /\ n >= 2 => /\ Len(msg) = n + 2
                           /\ msg[1] = Line("New friends detected", NoLink, n)
                           /\ msg[2] = EmptyLine
                           /\ \A i \in 1..n : msg[i + 2].text = "* "

\* a batch of several links was notified by one message with its header
C12_Witness ==
    /\ pc = "done"
    /\ ~first_run
    /\ Len(all_new_friends) >= 2
    /\ Len(sent) = 1
    /\ sent[1][1].n = Len(all_new_friends)

\* C13: a pass goes on past line 170 only with the snapshot written; when
\* save_data raises, the pass leaves persisting for the aborted state with
\* nothing written as saved, and it takes no further step: no message is
\* sent, nothing is logged and the end of the pass is not reached.
C13_SaveFailurePropagates ==
    /\ [](pc \in {"setup", "summaries", "done"}
            => saved /\ data_file = save_data(current_data))
    /\ [][(pc = "persisting" /\ ~saved') => pc' \in {"persisting", "aborted_persisting"}]_vars
    /\ [][pc = "aborted_persisting"
            => \/ pc' = "fetching"
               \/ UNCHANGED <<pc, sent, log, saved, data_file, deliveries>>]_vars

\* save_data raised after truncating the file, and the pass was aborted
C13_Witness ==
    /\ pc = "aborted_persisting"
    /\ ~saved
    /\ data_file = File("unparseable", EmptyMap)
    /\ current_data # EmptyMap

\* the number of tracked accounts the loop of lines 128-157 is through with
Processed ==
    IF pc \in {"diffing", "aborted_diffing"} THEN idx - 1
    ELSE IF pc \in {"idle", "fetching", "aborted_fetching"} THEN 0
    ELSE Len(STEAM_ACCOUNTS)

\* the ids added to account a in this pass: fetched, and not in its baseline
AddedOf(a) ==
    IF /\ Fetched(a)
       /\ ~first_run
       /\ HasKey(previous_data, a)
       /\ ~PreviousRaises(PreviousEntry(previous_data, a))
    THEN Range(results[a].friend_ids) \ PreviousFriends(PreviousEntry(previous_data, a))
    ELSE {}

\* the added ids of account a in the order of their first appearance in the
\* fetched list
AddedInListOrder(a) ==
    LET ids == results[a].friend_ids
        First(i) == ids[i] \in AddedOf(a) /\ \A j \in 1..(i - 1) : ids[j] # ids[i]
        F[i \in 0..Len(ids)] ==
            IF i = 0 THEN <<>>
            ELSE IF First(i) THEN Append(F[i - 1], ids[i]) ELSE F[i - 1]
    IN IF AddedOf(a) = {} THEN <<>> ELSE F[Len(ids)]

Links(order) == [i \in 1..Len(order) |-> get_profile_link(order[i])]

\* the batch with every account's links in fetched-list order, for the first
\* n tracked accounts
RECURSIVE BatchInListOrder(_)
BatchInListOrder(n) ==
    IF n = 0 THEN <<>>
    ELSE BatchInListOrder(n - 1) \o Links(AddedInListOrder(STEAM_ACCOUNTS[n]))

\* C15: the batch holds the links grouped by account in the order of
\* STEAM_ACCOUNTS and, within an account, in the order in which the added ids
\* appear in the fetched list.
C15_AccountThenListOrder == all_new_friends = BatchInListOrder(Processed)

\* some fetch task of line 125 has not completed
FetchOutstanding == \E a \in Accounts : results[a] = Pending

\* the number of calls of _send_single_message in flight
Outstanding == Len(SelectSeq(deliveries, IsInFlight))

\* C16: while any fetch is outstanding the pass is still at the gather: no
\* result has been diffed (no snapshot entry, no batch entry, no log line) and
\* no message was handed to the transport; no step diffs a result or issues a
\* transport call while a fetch is outstanding; and at most one transport call
\* is in flight in any state.
C16_AllCompleteBarrier ==
    /\ [](FetchOutstanding =>
            /\ pc \in {"idle", "fetching"}
            /\ idx = 0
            /\ current_data = EmptyMap
            /\ all_new_friends = <<>>
            /\ log = {}
            /\ sent = <<>>
            /\ deliveries = <<>>)
    /\ [](Outstanding <= 1)
    /\ [][(pc' # "fetching" /\ (\/ idx' # idx
                               \/ current_data' # current_data
                               \/ all_new_friends' # all_new_friends
                               \/ sent' # sent
                               \/ Len(SelectSeq(deliveries', IsInFlight)) > Outstanding))
            => ~FetchOutstanding]_vars

\* one fetch has completed with a list while the other is outstanding, and
\* nothing has been diffed or sent
C16_Witness ==
    /\ pc = "fetching"
    /\ \E a \in Accounts : Fetched(a) /\ results[a].friend_ids # <<>>
    /\ FetchOutstanding
    /\ ~first_run
    /\ \E a \in Accounts : HasKey(previous_data, a)

\* C18: in every snapshot a pass has written, the count of each entry is the
\* number of distinct ids in its stored relation list, repeated ids in the
\* fetched list included.
C18_CountIsCardinality ==
    saved =>
        \A a \in DOMAIN data_file.map :
            data_file.map[a].count = Cardinality(Range(data_file.map[a].friends))

\* the pass follows a pass that reached its end, and every fetch has
\* completed with the outcome and the list it had in that pass
SameAsLastPass == last_results # NoResults /\ results = last_results

\* C19: a pass that follows a completed pass and gets, for every tracked
\* account, the same fetch outcome and the same list detects no change, sends
\* no message, and the snapshot it writes equals the snapshot it read.
C19_StableUnderSameInput ==
    SameAsLastPass =>
        /\ ~first_run
        /\ previous_data.kind = "object"
        /\ sent = <<>>
        /\ all_new_friends = <<>>
        /\ log = {}
        /\ pc # "aborted_diffing"
        /\ saved => data_file = File("object", previous_data.map)

\* the second of two passes with the same outcomes, one account fetched with
\* relations and one failed, has ended and written its snapshot
C19_Witness ==
    /\ SameAsLastPass
    /\ pc = "done"
    /\ saved
    /\ \E a \in Accounts : Fetched(a) /\ results[a].friend_ids # <<>>
    /\ \E a \in Accounts : Failed(results[a])

----------------------------------------------------------------------------
(* Properties of send_telegram_message (SpecChunk) *)

TooLong(s) == StrLen(s) > MAX_MESSAGE_LENGTH

\* the lines of the texts handed to the transport, in call order
RECURSIVE ChunkLines(_)
ChunkLines(calls) ==
    IF calls = <<>> THEN <<>> ELSE Split(calls[1]) \o ChunkLines(Tail(calls))

\* the lines of the message, a line longer than the ceiling cut to the ceiling
ExpectedLines ==
    [i \in 1..Len(lines) |-> IF TooLong(lines[i]) THEN Truncated(lines[i]) ELSE lines[i]]

\* C5: for a message longer than the ceiling, every text handed to the
\* transport has at most MAX_MESSAGE_LENGTH characters, and once the call has
\* returned every line longer than the ceiling was handed over cut to exactly
\* MAX_MESSAGE_LENGTH characters.
C5_ChunksWithinCeiling ==
    TooLong(message) =>
        /\ \A i \in 1..Len(transport) : StrLen(transport[i]) <= MAX_MESSAGE_LENGTH
        /\ cpc = "returned" =>
            \A j \in 1..Len(lines) :
                TooLong(lines[j]) =>
                    \E i \in 1..Len(transport) :
                        /\ transport[i] = Truncated(lines[j])
                        /\ StrLen(transport[i]) = MAX_MESSAGE_LENGTH

\* C6: for a message longer than the ceiling, once the call has returned the
\* lines of the delivered texts, in delivery order, are the lines of the
\* message (empty ones included), a line longer than the ceiling cut to it.
C6_LinesPreserved ==
    (cpc = "returned" /\ TooLong(message)) => ChunkLines(transport) = ExpectedLines

\* lines[i..j], each followed by a newline, as the loop accumulates them
RECURSIVE Block(_, _)
Block(i, j) == IF i > j THEN EmptyStr ELSE Concat(Concat(lines[i], Newline), Block(i + 1, j))

\* the texts under which lines[i..j] are handed over as one chunk
ChunkOf(i, j) ==
    {Strip(Block(i, j))} \cup (IF i = j THEN {Truncated(lines[i])} ELSE {})

\* the calls hand over lines[from..upto] block after block, in line order
RECURSIVE InOrder(_, _, _)
InOrder(calls, from, upto) ==
    IF calls = <<>> THEN from = upto + 1
    ELSE \E j \in from..upto :
            /\ Head(calls) \in ChunkOf(from, j)
            /\ InOrder(Tail(calls), j + 1, upto)

InFlightCount(calls) == Len(SelectSeq(calls, IsInFlight))

\* C14: when a message is split, every hand-over is one transport call of
\* its own, issued only when every earlier call has completed; the calls made
\* so far hand over consecutive blocks of the lines read so far in line order,
\* the pending chunk being the block after them; no delivery outcome makes
\* send_telegram_message raise, and after a failed delivery the call still
\* returns with all lines handed over and every call completed.
C14_ChunksInOrderDespiteFailures ==
    /\ [](TooLong(message) =>
            /\ cpc # "raised"
            /\ Len(deliveries) = Len(transport)
            /\ InFlightCount(deliveries) <= 1
            /\ cpc = "splitting" =>
                \E k \in 1..line_no :
                    /\ InOrder(transport, 1, k - 1)
                    /\ current_chunk = Block(k, line_no - 1)
            /\ cpc \in {"finishing", "returned"} => InOrder(transport, 1, Len(lines))
            /\ cpc = "returned" => Awaited(deliveries))
    /\ [][TooLong(message) =>
            /\ Len(transport') <= Len(transport) + 1
            /\ Len(transport') > Len(transport) =>
                /\ Awaited(deliveries)
                /\ SubSeq(transport', 1, Len(transport)) = transport
                /\ deliveries' = Append(deliveries, InFlight)]_vars
    /\ (TooLong(message) /\ DeliveryFailed) ~> (cpc = "returned")

\* the call returned after three chunks of which the first was not delivered
C14_Witness ==
    /\ cpc = "returned"
    /\ Len(transport) >= 3
    /\ deliveries[1] \in {"non200", "error"}
    /\ deliveries[Len(deliveries)] = "ok"

\* the transport was handed a chunk that is not the last one: the flush of
\* lines 65-67, after which the line read is pending
FlushStep ==
    /\ cpc = "splitting"
    /\ line_no <= Len(lines)
    /\ current_chunk # EmptyStr
    /\ Len(transport') = Len(transport) + 1

\* s joined with t by a newline
Joined(s, t) == Concat(Concat(s, Newline), t)

\* C17: for a message longer than the ceiling whose lines are each at most
\* the ceiling, every chunk handed over before the last one is maximal: the
\* chunk joined with the next line of the message by a newline has more than
\* MAX_MESSAGE_LENGTH characters.
C17_ChunksMaximal ==
    [][(/\ TooLong(message)
        /\ \A i \in 1..Len(lines) : ~TooLong(lines[i])
        /\ FlushStep)
        => StrLen(Joined(transport'[Len(transport')], lines[line_no])) > MAX_MESSAGE_LENGTH]_vars

====
